---- MODULE Spec2Model ----
(***************************************************************************)
(* Publish-decision logic of the foodtrax GPS tracker firmware.            *)
(*                                                                         *)
(* The repository holds three variants of the same sketch:                 *)
(*   "H"  src/unnamed/part_000   heartbeat variant (tags G, F, H)          *)
(*   "M"  src/gps-tracker.ino    motion-gated variant (accelThreshold)     *)
(*   "P"  src/unnamed/part_001   plain variant (inline logic in loop())    *)
(* One of them is flashed on a device; `variant` says which.               *)
(*                                                                         *)
(* Number representation.  The GPS receiver delivers a coordinate in NMEA  *)
(* form ddmm.mmmm.  The sampler keeps it as an integer count of 1e-4 of    *)
(* that number (1000.0120 is 10000120).  t.readLon()/t.readLat() return    *)
(* that number, t.readLonDeg()/t.readLatDeg() return decimal degrees,      *)
(* here an integer count of micro-degrees (the resolution a 32-bit float   *)
(* has near 10 degrees).  Thresholds are expressed in the unit of the      *)
(* values the code compares.  The floats of the heartbeat variant are      *)
(* counts of millionths throughout, so the ddmm.mmmm number its gpsPublish *)
(* stores is scaled to that unit.  Time is in milliseconds.                *)
(* millis() and the variables that store it are 32-bit words.              *)
(***************************************************************************)
EXTENDS Integers, Sequences, FiniteSets, TLC

VARIABLES
    variant,                 \* which sketch runs: "H", "M" or "P"
    now,                     \* true time since the first state, ms
    epoch,                   \* what millis() returned in the first state
    lastCheckAt,             \* history: true time of the last scheduled check
    gps,                     \* the sampler: [fix, lon, lat] as parsed by t.updateGPS()
    mag,                     \* the accelerometer: what t.readXYZmagnitude() returns
    transmittingData,        \* int transmittingData (M, P)
    lastPublish,             \* long lastPublish
    lastPublishCheck,        \* long lastPublishCheck (H)
    previousCoordinatesSet,  \* bool previousCoordinatesSet
    previousLon,             \* float previousLon
    previousLat,             \* float previousLat
    lastPublishType,         \* String lastPublishType (H)
    op,                      \* the operation the last step ran
    ret,                     \* its return code (NoRet when it returns nothing)
    out,                     \* the messages it handed to Particle.publish
    baselineAccepts,         \* history: runs of the !previousCoordinatesSet branch
    movedSinceG,             \* history (H): an "F" was published and no "G" since
    lastEmit,                \* history (H): time of gpsPublishIfMoved's last message
    pairwiseClose,           \* history (H): every two consecutive fed samples are close
    lastFed,                 \* history (H): last sample fed to gpsPublishIfMoved
    nearBaseline,            \* history (H): every fed sample is close to the baseline
    baseline,                \* history (H): the position accepted as baseline
    lastTag,                 \* history (H): tag of the last G/F/H message of any operation
    ownTag,                  \* history (H): tag of gpsPublishIfMoved's last message
    stage,                   \* history (H): fixes of the test drive fed so far
    quiet,                   \* history (H): since the last "G" or "H" every check had a fix at rest
    twin                     \* history (M, P): memory of the run with the switch flipped

vars == << variant, now, epoch, lastCheckAt, gps, mag, transmittingData, lastPublish,
           lastPublishCheck,
           previousCoordinatesSet, previousLon, previousLat, lastPublishType,
           op, ret, out, baselineAccepts, movedSinceG, lastEmit, pairwiseClose,
           lastFed, nearBaseline, baseline, lastTag, ownTag, stage, quiet, twin >>

-----------------------------------------------------------------------------
(* Bounds of the model *)

\* minutes of device time explored, per variant
H_MaxMinutes == 9
M_MaxMinutes == 6
P_MaxMinutes == 11
\* single milliseconds that may pass besides whole minutes (0: every time read
\* is a whole minute)
MaxSkew == 0

\* minutes left before millis() runs over to 0, in the first state of the runs that
\* cross the wrap
WrapLead == 5

-----------------------------------------------------------------------------
(* Program constants *)

MsPerMinute == 60000            \* delayMinutes*60*1000
H_delayMinutes == 2
H_delayHeartbeatMinutes == 7
M_delayMinutes == 5
P_delayMinutes == 10
M_accelThreshold == 16000
H_moveThreshold == 1000         \* 0.001 degree, in micro-degrees
M_moveThreshold == 5            \* 0.0005 of the ddmm.mmmm number, in 1e-4
P_moveThreshold == 10           \* 0.001 of the ddmm.mmmm number, in 1e-4
LowBattery == 10000             \* getSoC() > 10, in 1e-3 percent
NoRet == 0 - 1

-----------------------------------------------------------------------------
(* The environment: what the sensors can deliver *)

BaseLon == 10 * 1000000         \* 1000.0000 = 10 degrees
BaseLat == 20 * 1000000         \* 2000.0000 = 20 degrees

\* offsets from the base position, [lon, lat]: at rest, a drift in two steps each
\* below the threshold, and a move along the other axis
Offsets == [H |-> { <<0, 0>>, <<360, 0>>, <<720, 0>>, <<0, 720>> },
            M |-> { <<0, 0>>, <<3, 0>>, <<6, 0>>, <<0, 6>> },
            P |-> { <<0, 0>>, <<6, 0>>, <<12, 0>>, <<0, 12>> }]

NoFix == [fix |-> FALSE, lon |-> 0, lat |-> 0]

Samples(v) ==
    {NoFix} \cup { [fix |-> TRUE, lon |-> BaseLon + o[1], lat |-> BaseLat + o[2]] :
                     o \in Offsets[v] }

Magnitudes(v) == IF v = "M" THEN {M_accelThreshold - 1, M_accelThreshold} ELSE {0}

\* battery readings: [v: cell voltage in mV, c: state of charge in 1e-3 percent]
Batteries == { [v |-> 3712, c |-> 10000], [v |-> 4105, c |-> 10004] }

\* arguments of the tmode command, as character sequences
Commands == { <<"0">>, <<"1">>, <<"-", "1">>, <<"1", "0">>, <<"o", "n">>, << >> }

Steps == {1, MsPerMinute}

-----------------------------------------------------------------------------
(* Library calls *)

\* the fix flag is not consulted
gpsFix_ignored(s) == TRUE

gpsFix(s) == s.fix

\* t.readLon(), t.readLat(): the ddmm.mmmm number as received
readLon(s) == s.lon
readLat(s) == s.lat

\* ddmm.mmmm -> decimal degrees: dd + mm.mmmm/60
ToDegrees(x) == (x \div 1000000) * 1000000 + ((x % 1000000) * 100) \div 60

\* t.readLonDeg(), t.readLatDeg()
readLonDeg(s) == ToDegrees(s.lon)
readLatDeg(s) == ToDegrees(s.lat)

\* t.readLatLon(): "lat,lon" in decimal degrees
readLatLon(s) == << ToDegrees(s.lat), ToDegrees(s.lon) >>

\* A 32-bit unsigned value is held as two 16-bit halves [hi, lo].
Half == 2 ^ 16

\* the 32-bit value of a number n, 0 <= n < 2^31
ToWord(n) == [hi |-> (n \div Half) % Half, lo |-> n % Half]

\* the 32-bit sum of a word and a number n, 0 <= n < 2^31: the counter runs over
\* from 2^32 - 1 to 0
WordPlus(w, n) ==
    LET lo == w.lo + (n % Half)
        hi == w.hi + (n \div Half) + (lo \div Half)
    IN [hi |-> hi % Half, lo |-> lo % Half]

\* millis() at true time t
millis(t) == WordPlus(epoch, t)

\* the difference is not taken modulo 2^32: a counter below the stored time gives 0
Elapsed_clamped(t, last) ==
    IF last.hi > t.hi \/ (last.hi = t.hi /\ last.lo > t.lo) THEN ToWord(0)
    ELSE LET lo == t.lo - last.lo
             hi == t.hi - last.hi - (IF lo < 0 THEN 1 ELSE 0)
         IN [hi |-> hi % Half, lo |-> lo % Half]

\* unsigned 32-bit subtraction millis()-last, modulo 2^32
Elapsed(t, last) ==
    LET lo == t.lo - last.lo
        hi == t.hi - last.hi - (IF lo < 0 THEN 1 ELSE 0)
    IN [hi |-> hi % Half, lo |-> lo % Half]

\* unsigned 32-bit comparison a > b
Above(a, b) == a.hi > b.hi \/ (a.hi = b.hi /\ a.lo > b.lo)

\* String::format("%.2f", x) of a value held in thousandths: hundredths, rounded
Format2(x) == (x + 5) \div 10

Digits == [c \in {"0", "1", "2", "3", "4", "5", "6", "7", "8", "9"} |->
            CASE c = "0" -> 0 [] c = "1" -> 1 [] c = "2" -> 2 [] c = "3" -> 3
              [] c = "4" -> 4 [] c = "5" -> 5 [] c = "6" -> 6 [] c = "7" -> 7
              [] c = "8" -> 8 [] c = "9" -> 9]

RECURSIVE AtoiDigits(_, _)
\* the value of the leading decimal digits of s, continuing from acc
AtoiDigits(s, acc) ==
    IF s = << >> \/ Head(s) \notin DOMAIN Digits THEN acc
    ELSE AtoiDigits(Tail(s), acc * 10 + Digits[Head(s)])

\* atoi(): optional sign, leading digits, 0 when there are none
atoi(s) ==
    IF s # << >> /\ Head(s) = "-" THEN 0 - AtoiDigits(Tail(s), 0)
    ELSE AtoiDigits(s, 0)

-----------------------------------------------------------------------------
(* Memory of the decision engine, as one record *)

Mem == [ previousLon |-> previousLon, previousLat |-> previousLat,
         previousCoordinatesSet |-> previousCoordinatesSet,
         lastPublishType |-> lastPublishType, lastPublish |-> lastPublish ]

Msg(tag, payload) == << tag, payload >>

f_abs(f) == IF f < 0 THEN (0 - 1) * f ELSE f

-----------------------------------------------------------------------------
(* Heartbeat variant, src/unnamed/part_000 *)

\* the threshold of the motion-gated sketch, 0.0005 (500 micro-degrees), used here
H_moved_halved(changeLon, changeLat) ==
    changeLon > 500 \/ changeLat > 500

\* the latitude is not looked at
H_moved_lonOnly(changeLon, changeLat) ==
    changeLon > H_moveThreshold

\* line 130: changeLon > 0.001 || changeLat > 0.001
H_moved(changeLon, changeLat) ==
    changeLon > H_moveThreshold \/ changeLat > H_moveThreshold

\* compared with the wrong tag
H_wasOnline_wrongTag(type) == type # "H"

\* the last message is not looked at
H_wasOnline_always(type) == TRUE

\* line 136: lastPublishType != "F"
H_wasOnline(type) == type # "F"

\* compared with the wrong tag
H_wasOffline_wrongTag(type) == type = "G"

\* line 146: lastPublishType == "F"
H_wasOffline(type) == type = "F"

\* the check interval used for the heartbeat
H_heartbeatDue_checkInterval(t, last) ==
    Above(Elapsed(t, last), ToWord(H_delayMinutes * MsPerMinute))

\* >= in place of >
H_heartbeatDue_inclusive(t, last) ==
    ~Above(ToWord(H_delayHeartbeatMinutes * MsPerMinute), Elapsed(t, last))

\* the 10 minutes the backend expects, used as the interval
H_heartbeatDue_late(t, last) ==
    Above(Elapsed(t, last), ToWord((H_delayHeartbeatMinutes + 3) * MsPerMinute))

\* line 153: millis()-lastPublish > delayHeartbeatMinutes*60*1000
H_heartbeatDue(t, last) ==
    Above(Elapsed(t, last), ToWord(H_delayHeartbeatMinutes * MsPerMinute))

\* the flag is not raised
H_acceptBaseline_noFlag(m, s) ==
    IF ~m.previousCoordinatesSet
    THEN [m EXCEPT !.previousLon = readLonDeg(s), !.previousLat = readLatDeg(s)]
    ELSE m

\* lines 107-114: the first update takes the sample as previous coordinates
H_acceptBaseline(m, s) ==
    IF ~m.previousCoordinatesSet
    THEN [m EXCEPT !.previousLon = readLonDeg(s), !.previousLat = readLatDeg(s),
                   !.previousCoordinatesSet = TRUE]
    ELSE m

\* the time is recorded on every detected movement, signalled or not
H_gpsPublishIfMoved_stampsSilent(m, s, t) ==
    IF ~gpsFix(s)
    THEN [mem |-> m, out |-> << >>, ret |-> 5, accepted |-> FALSE]
    ELSE
      LET b         == H_acceptBaseline(m, s)
          accepted  == ~m.previousCoordinatesSet
          thisLon   == readLonDeg(s)
          thisLat   == readLatDeg(s)
          changeLon == f_abs(b.previousLon - thisLon)
          changeLat == f_abs(b.previousLat - thisLat)
          u         == [b EXCEPT !.previousLon = thisLon, !.previousLat = thisLat,
                                 !.lastPublish = t]
      IN IF H_moved(changeLon, changeLat)
         THEN IF H_wasOnline(b.lastPublishType)
              THEN [mem |-> [u EXCEPT !.lastPublishType = "F"],
                    out |-> << Msg("F", << >>) >>, ret |-> 2, accepted |-> accepted]
              ELSE [mem |-> u, out |-> << >>, ret |-> 4, accepted |-> accepted]
         ELSE IF H_wasOffline(b.lastPublishType)
         THEN [mem |-> [b EXCEPT !.lastPublishType = "G", !.lastPublish = t],
               out |-> << Msg("G", readLatLon(s)) >>, ret |-> 3, accepted |-> accepted]
         ELSE IF H_heartbeatDue(t, b.lastPublish)
         THEN [mem |-> [b EXCEPT !.lastPublishType = "H", !.lastPublish = t],
               out |-> << Msg("H", << >>) >>, ret |-> 0, accepted |-> accepted]
         ELSE [mem |-> b, out |-> << >>, ret |-> 1, accepted |-> accepted]

\* the previous coordinates follow the sample only when the "F" is sent
H_gpsPublishIfMoved_keepsSilent(m, s, t) ==
    IF ~gpsFix(s)
    THEN [mem |-> m, out |-> << >>, ret |-> 5, accepted |-> FALSE]
    ELSE
      LET b         == H_acceptBaseline(m, s)
          accepted  == ~m.previousCoordinatesSet
          thisLon   == readLonDeg(s)
          thisLat   == readLatDeg(s)
          changeLon == f_abs(b.previousLon - thisLon)
          changeLat == f_abs(b.previousLat - thisLat)
          u         == [b EXCEPT !.previousLon = thisLon, !.previousLat = thisLat]
      IN IF H_moved(changeLon, changeLat)
         THEN IF H_wasOnline(b.lastPublishType)
              THEN [mem |-> [u EXCEPT !.lastPublishType = "F", !.lastPublish = t],
                    out |-> << Msg("F", << >>) >>, ret |-> 2, accepted |-> accepted]
              ELSE [mem |-> b, out |-> << >>, ret |-> 4, accepted |-> accepted]
         ELSE IF H_wasOffline(b.lastPublishType)
         THEN [mem |-> [b EXCEPT !.lastPublishType = "G", !.lastPublish = t],
               out |-> << Msg("G", readLatLon(s)) >>, ret |-> 3, accepted |-> accepted]
         ELSE IF H_heartbeatDue(t, b.lastPublish)
         THEN [mem |-> [b EXCEPT !.lastPublishType = "H", !.lastPublish = t],
               out |-> << Msg("H", << >>) >>, ret |-> 0, accepted |-> accepted]
         ELSE [mem |-> b, out |-> << >>, ret |-> 1, accepted |-> accepted]

\* int gpsPublishIfMoved(String command), called at millis() = t
H_gpsPublishIfMoved(m, s, t) ==
    IF ~gpsFix(s)
    THEN [mem |-> m, out |-> << >>, ret |-> 5, accepted |-> FALSE]
    ELSE
      LET b         == H_acceptBaseline(m, s)
          accepted  == ~m.previousCoordinatesSet
          thisLon   == readLonDeg(s)
          thisLat   == readLatDeg(s)
          changeLon == f_abs(b.previousLon - thisLon)
          changeLat == f_abs(b.previousLat - thisLat)
          u         == [b EXCEPT !.previousLon = thisLon, !.previousLat = thisLat]
      IN IF H_moved(changeLon, changeLat)
         THEN IF H_wasOnline(b.lastPublishType)
              THEN [mem |-> [u EXCEPT !.lastPublishType = "F", !.lastPublish = t],
                    out |-> << Msg("F", << >>) >>, ret |-> 2, accepted |-> accepted]
              ELSE [mem |-> u, out |-> << >>, ret |-> 4, accepted |-> accepted]
         ELSE IF H_wasOffline(b.lastPublishType)
         THEN [mem |-> [b EXCEPT !.lastPublishType = "G", !.lastPublish = t],
               out |-> << Msg("G", readLatLon(s)) >>, ret |-> 3, accepted |-> accepted]
         ELSE IF H_heartbeatDue(t, b.lastPublish)
         THEN [mem |-> [b EXCEPT !.lastPublishType = "H", !.lastPublish = t],
               out |-> << Msg("H", << >>) >>, ret |-> 0, accepted |-> accepted]
         ELSE [mem |-> b, out |-> << >>, ret |-> 1, accepted |-> accepted]

\* the ddmm.mmmm number x as the value of a float of the heartbeat variant, whose
\* unit here is the millionth
AsFloat(x) == x * 100

\* int gpsPublish(String command): stores what t.readLon(), t.readLat() return
H_gpsPublish(m, s) ==
    IF gpsFix(s)
    THEN [mem |-> [m EXCEPT !.previousLon = AsFloat(readLon(s)),
                            !.previousLat = AsFloat(readLat(s)),
                            !.previousCoordinatesSet = TRUE],
          out |-> << Msg("G", readLatLon(s)) >>, ret |-> 1, accepted |-> FALSE]
    ELSE [mem |-> m, out |-> << >>, ret |-> 0, accepted |-> FALSE]

\* int batteryStatus(String command), the same text in the three sketches
batteryStatus(b) ==
    [out |-> << Msg("B", << "v:", Format2(b.v), ",c:", Format2(b.c) >>) >>,
     ret |-> IF b.c > LowBattery THEN 1 ELSE 0]

\* line 63: millis()-lastPublishCheck > delayMinutes*60*1000
H_checkDue(t, last) ==
    Above(Elapsed(t, last), ToWord(H_delayMinutes * MsPerMinute))

-----------------------------------------------------------------------------
(* Motion-gated variant, src/gps-tracker.ino *)

\* line 79: transmittingData = atoi(command)
transmitMode(command) == atoi(command)

\* line 125: if (transmittingData)
Transmitting(td) == td # 0

\* <= in place of <
M_slowEnough_inclusive(g) == g <= M_accelThreshold

\* the accelerometer is not consulted
M_slowEnough_any(g) == TRUE

\* line 105: t.readXYZmagnitude() < accelThreshold
M_slowEnough(g) == g < M_accelThreshold

\* line 117: !previousCoordinatesSet || (changeLon > 0.0005 || changeLat > 0.0005)
M_report(set, changeLon, changeLat) ==
    ~set \/ (changeLon > M_moveThreshold \/ changeLat > M_moveThreshold)

\* int gpsPublishIfMoved(String command)
M_gpsPublishIfMoved(m, s, g, td) ==
    IF gpsFix(s) /\ M_slowEnough(g)
    THEN LET thisLon   == readLon(s)
             thisLat   == readLat(s)
             changeLon == f_abs(m.previousLon - thisLon)
             changeLat == f_abs(m.previousLat - thisLat)
             u         == [m EXCEPT !.previousLon = thisLon, !.previousLat = thisLat,
                                    !.previousCoordinatesSet = TRUE]
         IN IF M_report(m.previousCoordinatesSet, changeLon, changeLat)
            THEN IF Transmitting(td)
                 THEN [mem |-> u, out |-> << Msg("G", readLatLon(s)) >>, ret |-> 1,
                       accepted |-> ~m.previousCoordinatesSet]
                 ELSE [mem |-> u, out |-> << >>, ret |-> 3,
                       accepted |-> ~m.previousCoordinatesSet]
            ELSE [mem |-> m, out |-> << >>, ret |-> 2, accepted |-> FALSE]
    ELSE [mem |-> m, out |-> << >>, ret |-> 0, accepted |-> FALSE]

\* int gpsPublish(String command)
M_gpsPublish(m, s) ==
    IF gpsFix(s)
    THEN [mem |-> [m EXCEPT !.previousLon = readLon(s), !.previousLat = readLat(s),
                            !.previousCoordinatesSet = TRUE],
          out |-> << Msg("G", readLatLon(s)) >>, ret |-> 1, accepted |-> FALSE]
    ELSE [mem |-> m, out |-> << >>, ret |-> 0, accepted |-> FALSE]

\* line 68: millis()-lastPublish > delayMinutes*60*1000
M_checkDue(t, last) ==
    Above(Elapsed(t, last), ToWord(M_delayMinutes * MsPerMinute))

-----------------------------------------------------------------------------
(* Plain variant, src/unnamed/part_001 *)

\* lines 138-143: the differences are compared as they are, with their sign
P_report(set, changeLon, changeLat) ==
    ~set \/ (changeLon > P_moveThreshold \/ changeLat > P_moveThreshold)

\* the records are updated only when the message is sent
P_gpsPublishIfMoved_sentOnly(m, s, td) ==
    IF gpsFix(s)
    THEN LET thisLon   == readLon(s)
             thisLat   == readLat(s)
             changeLon == m.previousLon - thisLon
             changeLat == m.previousLat - thisLat
             u         == [m EXCEPT !.previousLon = thisLon, !.previousLat = thisLat,
                                    !.previousCoordinatesSet = TRUE]
         IN IF P_report(m.previousCoordinatesSet, changeLon, changeLat)
            THEN IF Transmitting(td)
                 THEN [mem |-> u, out |-> << Msg("G", readLatLon(s)) >>, ret |-> 1,
                       accepted |-> ~m.previousCoordinatesSet]
                 ELSE [mem |-> m, out |-> << >>, ret |-> 3, accepted |-> FALSE]
            ELSE [mem |-> m, out |-> << >>, ret |-> 2, accepted |-> FALSE]
    ELSE [mem |-> m, out |-> << >>, ret |-> 0, accepted |-> FALSE]

\* int gpsPublishIfMoved(String command)
P_gpsPublishIfMoved(m, s, td) ==
    IF gpsFix(s)
    THEN LET thisLon   == readLon(s)
             thisLat   == readLat(s)
             changeLon == m.previousLon - thisLon
             changeLat == m.previousLat - thisLat
             u         == [m EXCEPT !.previousLon = thisLon, !.previousLat = thisLat,
                                    !.previousCoordinatesSet = TRUE]
         IN IF P_report(m.previousCoordinatesSet, changeLon, changeLat)
            THEN IF Transmitting(td)
                 THEN [mem |-> u, out |-> << Msg("G", readLatLon(s)) >>, ret |-> 1,
                       accepted |-> ~m.previousCoordinatesSet]
                 ELSE [mem |-> u, out |-> << >>, ret |-> 3,
                       accepted |-> ~m.previousCoordinatesSet]
            ELSE [mem |-> m, out |-> << >>, ret |-> 2, accepted |-> FALSE]
    ELSE [mem |-> m, out |-> << >>, ret |-> 0, accepted |-> FALSE]

\* loop(), lines 76-104: the same decision inline, nothing returned
P_loopBody(m, s, td) ==
    IF gpsFix(s)
    THEN LET thisLon   == readLon(s)
             thisLat   == readLat(s)
             changeLon == m.previousLon - thisLon
             changeLat == m.previousLat - thisLat
             u         == [m EXCEPT !.previousLon = thisLon, !.previousLat = thisLat,
                                    !.previousCoordinatesSet = TRUE]
         IN IF P_report(m.previousCoordinatesSet, changeLon, changeLat)
            THEN [mem |-> u,
                  out |-> IF Transmitting(td) THEN << Msg("G", readLatLon(s)) >> ELSE << >>,
                  ret |-> NoRet, accepted |-> ~m.previousCoordinatesSet]
            ELSE [mem |-> m, out |-> << >>, ret |-> NoRet, accepted |-> FALSE]
    ELSE [mem |-> m, out |-> << >>, ret |-> NoRet, accepted |-> FALSE]

\* int gpsPublish(String command): publishes, keeps no record
P_gpsPublish(m, s) ==
    IF gpsFix(s)
    THEN [mem |-> m, out |-> << Msg("G", readLatLon(s)) >>, ret |-> 1, accepted |-> FALSE]
    ELSE [mem |-> m, out |-> << >>, ret |-> 0, accepted |-> FALSE]

\* line 63: millis()-lastPublish > delayMinutes*60*1000
P_checkDue(t, last) ==
    Above(Elapsed(t, last), ToWord(P_delayMinutes * MsPerMinute))

-----------------------------------------------------------------------------
(* History kept beside the program state, for stating the properties *)

NoBase == [lon |-> 0, lat |-> 0]

Tags(msgs) == { msgs[i][1] : i \in DOMAIN msgs }

\* two samples differ by less than the movement threshold in both axes
Close(a, b) ==
    /\ f_abs(readLonDeg(a) - readLonDeg(b)) < H_moveThreshold
    /\ f_abs(readLatDeg(a) - readLatDeg(b)) < H_moveThreshold

\* a sample differs from the baseline by no more than the threshold in both axes
Within(base, s) ==
    /\ f_abs(base.lon - readLonDeg(s)) <= H_moveThreshold
    /\ f_abs(base.lat - readLatDeg(s)) <= H_moveThreshold

Count(n) == IF n < 2 THEN n + 1 ELSE 2

\* after a step of the heartbeat variant that produced r from sample s at true time t;
\* fed: the step ran gpsPublishIfMoved; forced: it ran gpsPublish
H_Observe(r, s, t, fed, forced) ==
    /\ movedSinceG' = IF "F" \in Tags(r.out) THEN TRUE
                      ELSE IF "G" \in Tags(r.out) THEN FALSE
                      ELSE movedSinceG
    /\ lastEmit' = IF fed /\ r.out # << >> THEN t ELSE lastEmit
    /\ lastTag' = IF r.out # << >> THEN r.out[Len(r.out)][1] ELSE lastTag
    /\ ownTag' = IF fed /\ r.out # << >> THEN r.out[Len(r.out)][1] ELSE ownTag
    /\ baselineAccepts' = IF r.accepted THEN Count(baselineAccepts) ELSE baselineAccepts
    /\ IF forced /\ gpsFix(s)
       THEN /\ pairwiseClose' = FALSE
            /\ lastFed' = NoFix
            /\ nearBaseline' = FALSE
            /\ baseline' = NoBase
       ELSE IF fed /\ gpsFix(s)
       THEN /\ pairwiseClose' = (pairwiseClose /\ (lastFed = NoFix \/ Close(lastFed, s)))
            /\ lastFed' = IF pairwiseClose' THEN s ELSE NoFix
            /\ nearBaseline' = IF r.accepted THEN TRUE
                               ELSE nearBaseline /\ Within(baseline, s)
            /\ baseline' = IF r.accepted
                           THEN [lon |-> readLonDeg(s), lat |-> readLatDeg(s)]
                           ELSE IF nearBaseline' THEN baseline ELSE NoBase
       ELSE UNCHANGED << pairwiseClose, lastFed, nearBaseline, baseline >>

H_history == << movedSinceG, lastEmit, pairwiseClose, lastFed, nearBaseline, baseline,
               lastTag, ownTag, stage, quiet >>

Flip(td) == IF td = 0 THEN 1 ELSE 0

TwinMem == [Mem EXCEPT !.previousLon = twin.lon, !.previousLat = twin.lat,
                       !.previousCoordinatesSet = twin.set]

TwinOf(r) == [lon |-> r.mem.previousLon, lat |-> r.mem.previousLat,
              set |-> r.mem.previousCoordinatesSet, out |-> r.out, ret |-> r.ret]

TwinIdle(code) == [twin EXCEPT !.out = << >>, !.ret = code]

-----------------------------------------------------------------------------
(* Steps *)

MaxMinutes == [H |-> H_MaxMinutes, M |-> M_MaxMinutes, P |-> P_MaxMinutes]

\* d more milliseconds fit in the explored time
CanPass(d) ==
    IF d = 1 THEN now % MsPerMinute < MaxSkew
    ELSE now \div MsPerMinute < MaxMinutes[variant]

\* the assignments of a call that produced r
Store(r) ==
    /\ previousLon' = r.mem.previousLon
    /\ previousLat' = r.mem.previousLat
    /\ previousCoordinatesSet' = r.mem.previousCoordinatesSet
    /\ lastPublishType' = r.mem.lastPublishType
    /\ lastPublish' = r.mem.lastPublish
    /\ out' = r.out
    /\ ret' = r.ret

Idle == [mem |-> Mem, out |-> << >>, ret |-> NoRet, accepted |-> FALSE]

Init ==
    /\ variant \in {"H", "M", "P"}
    /\ now = 0
    /\ epoch = ToWord(0)
    /\ lastCheckAt = 0
    /\ gps = NoFix
    /\ mag \in Magnitudes(variant)
    /\ transmittingData = 1
    /\ lastPublish = ToWord(0)
    /\ lastPublishCheck = ToWord(0)
    /\ previousCoordinatesSet = FALSE
    /\ previousLon = 0
    /\ previousLat = 0
    /\ lastPublishType = IF variant = "H" THEN "F" ELSE ""
    /\ op = "boot"
    /\ ret = NoRet
    /\ out = << >>
    /\ baselineAccepts = 0
    /\ movedSinceG = FALSE
    /\ lastEmit = 0 - 1
    /\ pairwiseClose = TRUE
    /\ lastFed = NoFix
    /\ nearBaseline = FALSE
    /\ baseline = NoBase
    /\ lastTag = ""
    /\ ownTag = ""
    /\ stage = 0
    /\ quiet = FALSE
    /\ twin = [lon |-> 0, lat |-> 0, set |-> FALSE, out |-> << >>, ret |-> NoRet]

\* void loop() of the heartbeat variant: d ms later, the sampler holds s
H_loop ==
    /\ variant = "H"
    /\ \E d \in Steps, s \in Samples("H") :
         /\ CanPass(d)
         /\ now' = now + d
         /\ gps' = s
         /\ LET t   == millis(now')
                due == H_checkDue(t, lastPublishCheck)
                r   == IF due THEN H_gpsPublishIfMoved(Mem, s, t) ELSE Idle
            IN /\ lastPublishCheck' = IF due THEN t ELSE lastPublishCheck
               /\ op' = IF due THEN "tick" ELSE "idle"
               /\ lastCheckAt' = IF due THEN now' ELSE lastCheckAt
               /\ Store(r)
               /\ H_Observe(r, s, now', due, FALSE)
    /\ UNCHANGED << variant, epoch, mag, transmittingData, stage, quiet, twin >>

\* remote command "gpsIfMoved"
H_gpsIfMovedCmd ==
    /\ variant = "H"
    /\ LET r == H_gpsPublishIfMoved(Mem, gps, millis(now))
       IN /\ Store(r)
          /\ H_Observe(r, gps, now, TRUE, FALSE)
    /\ op' = "gpsIfMoved"
    /\ UNCHANGED << variant, now, epoch, lastCheckAt, gps, mag, transmittingData, lastPublishCheck,
                    stage, quiet, twin >>

\* remote command "gps"
H_gpsCmd ==
    /\ variant = "H"
    /\ LET r == H_gpsPublish(Mem, gps)
       IN /\ Store(r)
          /\ H_Observe(r, gps, now, FALSE, TRUE)
    /\ op' = "gps"
    /\ UNCHANGED << variant, now, epoch, lastCheckAt, gps, mag, transmittingData, lastPublishCheck,
                    stage, quiet, twin >>

\* remote command "batt"
H_battCmd ==
    /\ variant = "H"
    /\ \E b \in Batteries :
         /\ out' = batteryStatus(b).out
         /\ ret' = batteryStatus(b).ret
    /\ op' = "batt"
    /\ UNCHANGED << variant, now, epoch, lastCheckAt, gps, mag, transmittingData, lastPublish,
                    lastPublishCheck, previousCoordinatesSet, previousLon, previousLat,
                    lastPublishType, baselineAccepts, H_history, twin >>

\* void loop() of the motion-gated variant
M_loop ==
    /\ variant = "M"
    /\ \E d \in Steps, s \in Samples("M"), g \in Magnitudes("M") :
         /\ CanPass(d)
         /\ now' = now + d
         /\ gps' = s
         /\ mag' = g
         /\ LET t   == millis(now')
                due == M_checkDue(t, lastPublish)
                m   == [Mem EXCEPT !.lastPublish = t]
                r   == IF due THEN M_gpsPublishIfMoved(m, s, g, transmittingData)
                       ELSE Idle
                w   == IF due
                       THEN TwinOf(M_gpsPublishIfMoved([TwinMem EXCEPT !.lastPublish = t],
                                                       s, g, Flip(transmittingData)))
                       ELSE TwinIdle(NoRet)
            IN /\ op' = IF due THEN "tick" ELSE "idle"
               /\ lastCheckAt' = IF due THEN now' ELSE lastCheckAt
               /\ Store(r)
               /\ twin' = w
               /\ baselineAccepts' = IF r.accepted THEN Count(baselineAccepts)
                                     ELSE baselineAccepts
    /\ UNCHANGED << variant, epoch, transmittingData, lastPublishCheck, H_history >>

\* remote command "gpsIfMoved"
M_gpsIfMovedCmd ==
    /\ variant = "M"
    /\ LET r == M_gpsPublishIfMoved(Mem, gps, mag, transmittingData)
       IN /\ Store(r)
          /\ baselineAccepts' = IF r.accepted THEN Count(baselineAccepts)
                                ELSE baselineAccepts
    /\ twin' = TwinOf(M_gpsPublishIfMoved(TwinMem, gps, mag, Flip(transmittingData)))
    /\ op' = "gpsIfMoved"
    /\ UNCHANGED << variant, now, epoch, lastCheckAt, gps, mag, transmittingData, lastPublishCheck,
                    H_history >>

\* remote command "gps"
M_gpsCmd ==
    /\ variant = "M"
    /\ Store(M_gpsPublish(Mem, gps))
    /\ twin' = TwinOf(M_gpsPublish(TwinMem, gps))
    /\ op' = "gps"
    /\ UNCHANGED << variant, now, epoch, lastCheckAt, gps, mag, transmittingData, lastPublishCheck,
                    baselineAccepts, H_history >>

\* remote command "tmode"
M_tmodeCmd ==
    /\ variant = "M"
    /\ \E c \in Commands : transmittingData' = transmitMode(c)
    /\ op' = "tmode"
    /\ ret' = 1
    /\ out' = << >>
    /\ twin' = TwinIdle(1)
    /\ UNCHANGED << variant, now, epoch, lastCheckAt, gps, mag, lastPublish, lastPublishCheck,
                    previousCoordinatesSet, previousLon, previousLat, lastPublishType,
                    baselineAccepts, H_history >>

\* remote command "batt"
M_battCmd ==
    /\ variant = "M"
    /\ \E b \in Batteries :
         /\ out' = batteryStatus(b).out
         /\ ret' = batteryStatus(b).ret
         /\ twin' = [twin EXCEPT !.out = batteryStatus(b).out, !.ret = batteryStatus(b).ret]
    /\ op' = "batt"
    /\ UNCHANGED << variant, now, epoch, lastCheckAt, gps, mag, transmittingData, lastPublish,
                    lastPublishCheck, previousCoordinatesSet, previousLon, previousLat,
                    lastPublishType, baselineAccepts, H_history >>

\* void loop() of the plain variant
P_loop ==
    /\ variant = "P"
    /\ \E d \in Steps, s \in Samples("P") :
         /\ CanPass(d)
         /\ now' = now + d
         /\ gps' = s
         /\ LET t   == millis(now')
                due == P_checkDue(t, lastPublish)
                m   == [Mem EXCEPT !.lastPublish = t]
                r   == IF due THEN P_loopBody(m, s, transmittingData) ELSE Idle
                w   == IF due
                       THEN TwinOf(P_loopBody([TwinMem EXCEPT !.lastPublish = t],
                                              s, Flip(transmittingData)))
                       ELSE TwinIdle(NoRet)
            IN /\ op' = IF due THEN "tick" ELSE "idle"
               /\ lastCheckAt' = IF due THEN now' ELSE lastCheckAt
               /\ Store(r)
               /\ twin' = w
               /\ baselineAccepts' = IF r.accepted THEN Count(baselineAccepts)
                                     ELSE baselineAccepts
    /\ UNCHANGED << variant, epoch, mag, transmittingData, lastPublishCheck, H_history >>

\* remote command "gpsIfMoved"
P_gpsIfMovedCmd ==
    /\ variant = "P"
    /\ LET r == P_gpsPublishIfMoved(Mem, gps, transmittingData)
       IN /\ Store(r)
          /\ baselineAccepts' = IF r.accepted THEN Count(baselineAccepts)
                                ELSE baselineAccepts
    /\ twin' = TwinOf(P_gpsPublishIfMoved(TwinMem, gps, Flip(transmittingData)))
    /\ op' = "gpsIfMoved"
    /\ UNCHANGED << variant, now, epoch, lastCheckAt, gps, mag, transmittingData, lastPublishCheck,
                    H_history >>

\* remote command "gps"
P_gpsCmd ==
    /\ variant = "P"
    /\ Store(P_gpsPublish(Mem, gps))
    /\ twin' = TwinOf(P_gpsPublish(TwinMem, gps))
    /\ op' = "gps"
    /\ UNCHANGED << variant, now, epoch, lastCheckAt, gps, mag, transmittingData, lastPublishCheck,
                    baselineAccepts, H_history >>

\* remote command "tmode"
P_tmodeCmd ==
    /\ variant = "P"
    /\ \E c \in Commands : transmittingData' = transmitMode(c)
    /\ op' = "tmode"
    /\ ret' = 1
    /\ out' = << >>
    /\ twin' = TwinIdle(1)
    /\ UNCHANGED << variant, now, epoch, lastCheckAt, gps, mag, lastPublish, lastPublishCheck,
                    previousCoordinatesSet, previousLon, previousLat, lastPublishType,
                    baselineAccepts, H_history >>

\* remote command "batt"
P_battCmd ==
    /\ variant = "P"
    /\ \E b \in Batteries :
         /\ out' = batteryStatus(b).out
         /\ ret' = batteryStatus(b).ret
         /\ twin' = [twin EXCEPT !.out = batteryStatus(b).out, !.ret = batteryStatus(b).ret]
    /\ op' = "batt"
    /\ UNCHANGED << variant, now, epoch, lastCheckAt, gps, mag, transmittingData, lastPublish,
                    lastPublishCheck, previousCoordinatesSet, previousLon, previousLat,
                    lastPublishType, baselineAccepts, H_history >>

NextH == H_loop \/ H_gpsIfMovedCmd \/ H_gpsCmd \/ H_battCmd

NextM == M_loop \/ M_gpsIfMovedCmd \/ M_gpsCmd \/ M_tmodeCmd \/ M_battCmd

NextP == P_loop \/ P_gpsIfMovedCmd \/ P_gpsCmd \/ P_tmodeCmd \/ P_battCmd

Next == NextH \/ NextM \/ NextP

Spec == Init /\ [][Next]_vars

\* one sketch at a time
InitH == Init /\ variant = "H"

InitM == Init /\ variant = "M"

InitP == Init /\ variant = "P"

SpecH == InitH /\ [][NextH]_vars

SpecM == InitM /\ [][NextM]_vars

SpecP == InitP /\ [][NextP]_vars

-----------------------------------------------------------------------------
(* Vocabulary of the properties.  A step is told by op'; the sample it reads is  *)
(* gps' and the time it reads is millis(now'), both for a tick and a command.    *)

\* the step runs gpsPublishIfMoved: from loop() or as the remote command
IfMovedCall == op' \in {"tick", "gpsIfMoved"}

IfMovedRan == op \in {"tick", "gpsIfMoved"}

\* the sample differs from the stored coordinates by more than 0.001 in an axis
H_Differs(lon, lat, s) ==
    \/ f_abs(lon - readLonDeg(s)) > H_moveThreshold
    \/ f_abs(lat - readLatDeg(s)) > H_moveThreshold

\* both deltas computed by the call are not above 0.001 (they are 0 when the call
\* first takes the sample as baseline)
H_NoMove(s) ==
    ~previousCoordinatesSet \/ ~H_Differs(previousLon, previousLat, s)

HeartbeatInterval == ToWord(H_delayHeartbeatMinutes * MsPerMinute)

-----------------------------------------------------------------------------
(* C1: heartbeat variant. From a stationary state (last type "G" or "H") a     *)
(* gpsPublishIfMoved call whose sample differs from previousLon/previousLat by *)
(* more than 0.001 in an axis publishes exactly one "F" and returns 2; while   *)
(* an "F" has been published and no "G" since, a call that detects movement    *)
(* publishes nothing and returns 4.                                            *)
C1_MovedEdgeOnce ==
    [][ (variant = "H" /\ IfMovedCall /\ gps'.fix
           /\ H_Differs(previousLon, previousLat, gps'))
        => /\ lastPublishType \in {"G", "H"}
                => (out' = << Msg("F", << >>) >> /\ ret' = 2)
           /\ movedSinceG => (out' = << >> /\ ret' = 4) ]_vars

\* a call detected movement again after the "F" and stayed silent
C1_Witness ==
    variant = "H" /\ IfMovedRan /\ ret = 4 /\ movedSinceG /\ out = << >>

(* C2: heartbeat variant. With last type "F", a valid fix and both deltas not   *)
(* above 0.001, gpsPublishIfMoved publishes "G", sets lastPublishType to "G"    *)
(* and lastPublish to now and returns 3, whatever millis()-lastPublish is.      *)
C2_StoppedAlwaysReports ==
    [][ (variant = "H" /\ IfMovedCall /\ gps'.fix /\ lastPublishType = "F"
           /\ H_NoMove(gps'))
        => /\ out' = << Msg("G", readLatLon(gps')) >>
           /\ lastPublishType' = "G"
           /\ lastPublish' = millis(now')
           /\ ret' = 3 ]_vars

\* the position was reported after a movement, before any heartbeat could be due
C2_Witness ==
    /\ variant = "H" /\ IfMovedRan /\ ret = 3 /\ lastPublishType = "G"
    /\ previousCoordinatesSet /\ ~nearBaseline
    /\ now < H_delayHeartbeatMinutes * MsPerMinute

(* C3: all variants. A gpsPublishIfMoved or gpsPublish call made without a GPS  *)
(* fix publishes nothing, leaves previousLon, previousLat,                      *)
(* previousCoordinatesSet, lastPublishType and lastPublish as they are and      *)
(* returns the no-fix code: 5 from gpsPublishIfMoved of the heartbeat variant,  *)
(* 0 otherwise.  (In the sketches whose loop() writes lastPublish before the    *)
(* call, that write belongs to loop(), and the inline logic of the plain        *)
(* sketch returns nothing.)                                                     *)
C3_NoFixNoOp ==
    [][ ((IfMovedCall \/ op' = "gps") /\ ~gps'.fix)
        => /\ out' = << >>
           /\ UNCHANGED << previousLon, previousLat, previousCoordinatesSet,
                           lastPublishType >>
           /\ (op' # "tick" \/ variant = "H") => lastPublish' = lastPublish
           /\ (op' = "tick" /\ variant = "P") => ret' = NoRet
           /\ ~(op' = "tick" /\ variant = "P")
                => ret' = IF variant = "H" /\ op' # "gps" THEN 5 ELSE 0 ]_vars

\* a call without a fix, made when the memory already held a baseline
C3_Witness ==
    /\ IfMovedRan /\ ~gps.fix /\ ret = 5 /\ out = << >>
    /\ previousCoordinatesSet /\ lastPublishType = "G"

(* C4, as stated: in every variant the first gpsPublishIfMoved call made with a *)
(* valid fix sets previousCoordinatesSet, whatever the sample.                  *)
C4_AsStated ==
    [][ (IfMovedCall /\ gps'.fix /\ ~previousCoordinatesSet)
        => previousCoordinatesSet' ]_vars

(* C4, amended: the first gpsPublishIfMoved call made with a valid fix (and, in *)
(* the motion-gated variant, a magnitude below accelThreshold) sets             *)
(* previousCoordinatesSet and is the one baseline acceptance; afterwards no     *)
(* step clears the flag or accepts a baseline again.                            *)
C4_MonotonicBaseline ==
    [][ /\ (IfMovedCall /\ gps'.fix /\ ~previousCoordinatesSet
              /\ (variant = "M" => mag' < M_accelThreshold))
           => (previousCoordinatesSet' /\ baselineAccepts' = 1)
        /\ previousCoordinatesSet
           => (previousCoordinatesSet' /\ baselineAccepts' = baselineAccepts) ]_vars

\* a later call moved the stored position after the one baseline acceptance
C4_Witness ==
    /\ IfMovedRan /\ previousCoordinatesSet /\ baselineAccepts = 1
    /\ variant = "M" /\ ret = 1 /\ previousLon # BaseLon

(* C5, as stated: heartbeat variant. While every two consecutive samples differ *)
(* by less than 0.001 in both axes, no gpsPublishIfMoved call after baseline    *)
(* acceptance changes previousLon or previousLat.                               *)
C5_AsStated ==
    [][ (variant = "H" /\ IfMovedCall /\ gps'.fix /\ previousCoordinatesSet
           /\ pairwiseClose')
        => (previousLon' = previousLon /\ previousLat' = previousLat) ]_vars

(* C5, amended: heartbeat variant. While every sample fed to gpsPublishIfMoved  *)
(* differs from the accepted baseline by no more than 0.001 in both axes,       *)
(* previousLon and previousLat hold the baseline.                               *)
C5_BaselineKept ==
    (variant = "H" /\ nearBaseline)
        => (previousLon = baseline.lon /\ previousLat = baseline.lat)

\* a later sample off the baseline, within the threshold, was evaluated
C5_Witness ==
    /\ variant = "H" /\ nearBaseline /\ IfMovedRan /\ gps.fix
    /\ readLonDeg(gps) # baseline.lon /\ ret = 1

(* C6, as stated: heartbeat variant. While every two consecutive samples differ *)
(* by less than 0.001 in both axes, two messages of gpsPublishIfMoved are more  *)
(* than delayHeartbeatMinutes apart.                                            *)
C6_AsStated ==
    [][ (variant = "H" /\ IfMovedCall /\ out' # << >> /\ pairwiseClose'
           /\ lastEmit >= 0)
        => now' - lastEmit > H_delayHeartbeatMinutes * MsPerMinute ]_vars

(* C6, amended: heartbeat variant. While every sample fed to gpsPublishIfMoved  *)
(* differs from the accepted baseline by no more than 0.001 in both axes, two   *)
(* messages of gpsPublishIfMoved are more than delayHeartbeatMinutes apart: no  *)
(* window of that length holds two of them.                                     *)
C6_OnePerWindow ==
    [][ (variant = "H" /\ IfMovedCall /\ out' # << >> /\ nearBaseline'
           /\ lastEmit >= 0)
        => now' - lastEmit > H_delayHeartbeatMinutes * MsPerMinute ]_vars

\* a heartbeat followed the position report of a device at rest
C6_Witness ==
    /\ variant = "H" /\ nearBaseline /\ IfMovedRan
    /\ out = << Msg("H", << >>) >> /\ lastEmit = now

(* C7, as stated: heartbeat variant. With a valid fix, no movement and last     *)
(* type "G" or "H", the heartbeat is sent when now - lastPublish is greater     *)
(* than or equal to the interval.                                               *)
C7_AsStated ==
    [][ (variant = "H" /\ IfMovedCall /\ gps'.fix /\ H_NoMove(gps')
           /\ lastPublishType \in {"G", "H"}
           /\ ~Above(HeartbeatInterval, Elapsed(millis(now'), lastPublish)))
        => (out' = << Msg("H", << >>) >> /\ ret' = 0) ]_vars

(* C7, amended: heartbeat variant. With a valid fix, no movement and last type  *)
(* "G" or "H": when now - lastPublish is greater than the interval the call     *)
(* publishes "H" with an empty payload, sets lastPublishType to "H" and         *)
(* lastPublish to now and returns 0; otherwise (equality included) it publishes *)
(* nothing and returns 1.                                                       *)
C7_HeartbeatStrictlyAfter ==
    [][ (variant = "H" /\ IfMovedCall /\ gps'.fix /\ H_NoMove(gps')
           /\ lastPublishType \in {"G", "H"})
        => IF Above(Elapsed(millis(now'), lastPublish), HeartbeatInterval)
           THEN /\ out' = << Msg("H", << >>) >>
                /\ lastPublishType' = "H"
                /\ lastPublish' = millis(now')
                /\ ret' = 0
           ELSE /\ out' = << >>
                /\ ret' = 1
                /\ UNCHANGED << lastPublishType, lastPublish >> ]_vars

\* a call made exactly one interval after the last message stayed silent
C7_Witness ==
    /\ variant = "H" /\ IfMovedRan /\ ret = 1 /\ gps.fix
    /\ lastPublishType \in {"G", "H"}
    /\ Elapsed(millis(now), lastPublish) = HeartbeatInterval

(* C8: variants with a transmit switch. While transmittingData is 0 no          *)
(* operation hands a message to Particle.publish.                               *)
C8_SwitchSilences ==
    [][ (variant \in {"M", "P"} /\ transmittingData = 0) => out' = << >> ]_vars

(* C9: variants with a transmit switch. The run with the switch flipped, fed    *)
(* the same samples and calls, holds the same previousLon, previousLat and      *)
(* previousCoordinatesSet after every step; after a gpsPublishIfMoved call the  *)
(* two runs either agree in message and return code, or the transmitting one    *)
(* published "G" (return 1) where the silent one published nothing (return 3).  *)
C9_SwitchGatesDeliveryOnly ==
    variant \in {"M", "P"}
    => /\ twin.lon = previousLon
       /\ twin.lat = previousLat
       /\ twin.set = previousCoordinatesSet
       /\ IfMovedRan =>
            LET mine   == [out |-> out, ret |-> ret]
                theirs == [out |-> twin.out, ret |-> twin.ret]
                on     == IF Transmitting(transmittingData) THEN mine ELSE theirs
                off    == IF Transmitting(transmittingData) THEN theirs ELSE mine
            IN \/ on = off
               \/ /\ on.out = << Msg("G", readLatLon(gps)) >>
                  /\ off.out = << >>
                  /\ \/ on.ret = 1 /\ off.ret = 3
                     \/ on.ret = NoRet /\ off.ret = NoRet /\ op = "tick" /\ variant = "P"

\* a silent run took a new position that the transmitting run reported
C9_Witness ==
    /\ variant \in {"M", "P"} /\ op = "gpsIfMoved" /\ transmittingData = 0
    /\ ret = 3 /\ twin.ret = 1 /\ previousCoordinatesSet
    /\ baselineAccepts = 1 /\ previousLon # BaseLon

(* C10, as stated: motion-gated variant. previousLon and previousLat change     *)
(* only in a step with a valid fix and a magnitude below accelThreshold.        *)
C10_AsStated ==
    [][ (variant = "M" /\ (previousLon' # previousLon \/ previousLat' # previousLat))
        => (gps'.fix /\ mag' < M_accelThreshold) ]_vars

(* C10, amended: motion-gated variant. previousLon and previousLat change only  *)
(* in a gpsPublishIfMoved step with a valid fix and a magnitude below           *)
(* accelThreshold, or in a forced gpsPublish step with a valid fix.             *)
C10_PositionWrittenOnlyOnAcceptedFix ==
    [][ (variant = "M" /\ (previousLon' # previousLon \/ previousLat' # previousLat))
        => /\ gps'.fix
           /\ \/ op' = "gps"
              \/ IfMovedCall /\ mag' < M_accelThreshold ]_vars

\* a tick at low magnitude moved the stored position
C10_Witness ==
    /\ variant = "M" /\ op = "tick" /\ gps.fix /\ mag < M_accelThreshold
    /\ ret \in {1, 3} /\ previousLon = readLon(gps) /\ baselineAccepts = 1
    /\ previousLon # BaseLon

\* C11 (as stated): in the heartbeat variant lastPublishType is empty while no G, F
\* or H message has been published, and afterwards it is the tag of the most recent
\* such message, whichever operation published it (gpsPublishIfMoved or gpsPublish)
C11_TypeIsLastTag ==
    variant = "H" => lastPublishType = lastTag

(* C12: heartbeat variant. Every gpsPublishIfMoved call publishes at most one   *)
(* message and its return code tells which: 0 exactly when one "H" went out,    *)
(* 2 exactly when one "F", 3 exactly when one "G"; 1, 4 and 5 only when nothing *)
(* went out; 5 exactly when there is no fix; 4 exactly when movement was        *)
(* detected while lastPublishType was already "F".                              *)
C12_ReturnCodeTellsDecision ==
    [][ (variant = "H" /\ IfMovedCall)
        => /\ Len(out') <= 1
           /\ ret' \in 0..5
           /\ ret' = 0 <=> out' = << Msg("H", << >>) >>
           /\ ret' = 2 <=> out' = << Msg("F", << >>) >>
           /\ ret' = 3 <=> (Len(out') = 1 /\ Tags(out') = {"G"})
           /\ ret' \in {1, 4, 5} => out' = << >>
           /\ ret' = 5 <=> ~gps'.fix
           /\ ret' = 4 <=> (gps'.fix /\ ~H_NoMove(gps') /\ lastPublishType = "F") ]_vars

\* the remote command found the tracker at rest again and reported the position
C12_Witness ==
    variant = "H" /\ op = "gpsIfMoved" /\ ret = 3 /\ Tags(out) = {"G"} /\ ownTag = "G"

\* the coordinates a variant compares: decimal degrees in the heartbeat variant,
\* the ddmm.mmmm number in the others
Compared(s) ==
    IF variant = "H" THEN [lon |-> readLonDeg(s), lat |-> readLatDeg(s)]
    ELSE [lon |-> readLon(s), lat |-> readLat(s)]

MoveThreshold == [H |-> H_moveThreshold, M |-> M_moveThreshold, P |-> P_moveThreshold]

\* the sample is farther from the stored coordinates than the threshold in an axis,
\* in either direction
Displaced(s) ==
    \/ f_abs(previousLon - Compared(s).lon) > MoveThreshold[variant]
    \/ f_abs(previousLat - Compared(s).lat) > MoveThreshold[variant]

\* the step took the movement branch: told by the return code, and by the stored
\* coordinates where the decision is made inline in loop()
TookMoveBranch ==
    IF variant = "H" THEN ret' \in {2, 4}
    ELSE IF variant = "P" /\ op' = "tick"
    THEN previousLon' # previousLon \/ previousLat' # previousLat
    ELSE ret' \in {1, 3}

\* C13 (as stated): in every variant, once the baseline is set, a call that gets past
\* the fix test (and the accelerometer test) takes the movement branch exactly when
\* the absolute difference of an axis exceeds the threshold, so a displacement of the
\* same size is decided alike whether the coordinate went up or down
C13_MovementTestSymmetric ==
    [][ (IfMovedCall /\ gps'.fix /\ previousCoordinatesSet
           /\ (variant = "M" => M_slowEnough(mag')))
        => (TookMoveBranch <=> Displaced(gps')) ]_vars

-----------------------------------------------------------------------------
(* The heartbeat variant left alone: no remote command arrives and loop() comes  *)
(* round within the millisecond, so a check is made at the first millisecond at  *)
(* which line 63 finds it due.                                                   *)

\* minutes and single milliseconds of device time explored in these runs
PromptMinutes == 16
PromptSkew == 8

\* d more milliseconds fit in the explored time and no due check is passed over
PromptPass(d) ==
    /\ IF d = 1 THEN now % MsPerMinute < PromptSkew
       ELSE now \div MsPerMinute < PromptMinutes
    /\ ~H_checkDue(millis(now + d - 1), lastPublishCheck)

\* the fixes of the test drive, in the order the checks read them: at rest, a
\* drift of 0.0002/0.0001 degree, a move of 0.0020 degree, then 0.0021 degree
Drive == << [fix |-> TRUE, lon |-> BaseLon, lat |-> BaseLat],
            [fix |-> TRUE, lon |-> BaseLon + 120, lat |-> BaseLat + 60],
            [fix |-> TRUE, lon |-> BaseLon + 1200, lat |-> BaseLat],
            [fix |-> TRUE, lon |-> BaseLon + 1260, lat |-> BaseLat] >>

\* the fix read by the check that follows k checks: the last one stays
DriveSample(k) == Drive[IF k < Len(Drive) THEN k + 1 ELSE Len(Drive)]

\* one more check made, counted up to the first of the repeated ones
NextStage(k) == IF k <= Len(Drive) THEN k + 1 ELSE k

\* void loop() d ms later with the sampler holding s, the body of lines 59-69
H_loopBody(d, s) ==
    /\ now' = now + d
    /\ gps' = s
    /\ LET t   == millis(now')
           due == H_checkDue(t, lastPublishCheck)
           r   == IF due THEN H_gpsPublishIfMoved(Mem, s, t) ELSE Idle
       IN /\ lastPublishCheck' = IF due THEN t ELSE lastPublishCheck
          /\ op' = IF due THEN "tick" ELSE "idle"
          /\ lastCheckAt' = IF due THEN now' ELSE lastCheckAt
          /\ Store(r)
          /\ H_Observe(r, s, now', due, FALSE)
          /\ stage' = IF due THEN NextStage(stage) ELSE stage
          /\ quiet' = IF ~due THEN quiet
                      ELSE IF r.out # << >> THEN Tags(r.out) \subseteq {"G", "H"}
                      ELSE quiet /\ gpsFix(s) /\ H_NoMove(s)
    /\ UNCHANGED << variant, epoch, mag, transmittingData, twin >>

\* void loop() on the test drive: the checks read the fixes of the drive in order,
\* between checks the sampler holds any of them or none
H_loop_drive ==
    /\ variant = "H"
    /\ \E d \in Steps, s \in {NoFix} \cup { Drive[i] : i \in DOMAIN Drive } :
         /\ PromptPass(d)
         /\ H_loopBody(d, IF H_checkDue(millis(now + d), lastPublishCheck)
                          THEN DriveSample(stage) ELSE s)

\* void loop() with any reading of the sampler
H_loop_prompt ==
    /\ variant = "H"
    /\ \E d \in Steps, s \in Samples("H") :
         /\ PromptPass(d)
         /\ H_loopBody(d, s)

SpecDrive == InitH /\ [][H_loop_drive]_vars

SpecPrompt == InitH /\ [][H_loop_prompt]_vars

\* 7 minutes have passed since gpsPublishIfMoved's last message when the step reads
\* the time
SevenMinutesSilent == now' - lastEmit > H_delayHeartbeatMinutes * MsPerMinute

\* C14 (as stated): on the test drive the first check accepts the baseline and
\* publishes nothing, the second publishes nothing, the third publishes one "F", the
\* fourth publishes nothing, and the repeated fifth publishes nothing until 7 minutes
\* have passed without a message and then one "H"
C14_AsStated ==
    [][ (variant = "H" /\ op' = "tick")
        => /\ stage = 0 => (out' = << >> /\ previousCoordinatesSet')
           /\ stage = 1 => out' = << >>
           /\ stage = 2 => out' = << Msg("F", << >>) >>
           /\ stage = 3 => out' = << >>
           /\ stage >= 4 => out' = IF SevenMinutesSilent THEN << Msg("H", << >>) >>
                                   ELSE << >> ]_vars

(* C14: on the test drive, with a check every 2 minutes, the first check accepts *)
(* the baseline and publishes the position "G", the second publishes nothing,    *)
(* the third publishes one "F" and takes the sample as previous coordinates,     *)
(* the fourth publishes the position "G" and leaves them alone, and the          *)
(* repeated fifth publishes nothing until more than 7 minutes have passed since  *)
(* the last message and then one "H".                                            *)
C14_TestDrive ==
    [][ (variant = "H" /\ op' = "tick")
        => /\ stage = 0 => /\ out' = << Msg("G", readLatLon(Drive[1])) >>
                           /\ ~previousCoordinatesSet /\ previousCoordinatesSet'
                           /\ previousLon' = readLonDeg(Drive[1])
                           /\ previousLat' = readLatDeg(Drive[1])
           /\ stage = 1 => out' = << >> /\ UNCHANGED << previousLon, previousLat >>
           /\ stage = 2 => /\ out' = << Msg("F", << >>) >>
                           /\ previousLon' = readLonDeg(Drive[3])
                           /\ previousLat' = readLatDeg(Drive[3])
           /\ stage = 3 => /\ out' = << Msg("G", readLatLon(Drive[4])) >>
                           /\ UNCHANGED << previousLon, previousLat >>
           /\ stage >= 4 => out' = IF SevenMinutesSilent THEN << Msg("H", << >>) >>
                                   ELSE << >> ]_vars

\* the drive reached the heartbeat: three silent checks of the repeated fix, then "H"
C14_Witness ==
    variant = "H" /\ op = "tick" /\ stage = Len(Drive) + 1 /\ gps = Drive[Len(Drive)]
    /\ out = << Msg("H", << >>) >> /\ lastPublishType = "H"

(* C15: heartbeat variant. lastPublish changes only in a step in which           *)
(* gpsPublishIfMoved hands an "F", "G" or "H" to Particle.publish, and then to   *)
(* the time of the call; the calls that return 1, 4 or 5, the forced gps and the *)
(* batt commands, and the scheduler's own record lastPublishCheck leave it alone.*)
C15_LastPublishFrame ==
    [][ variant = "H"
        => /\ lastPublish' # lastPublish
                => /\ IfMovedCall
                   /\ Len(out') = 1 /\ Tags(out') \subseteq {"F", "G", "H"}
                   /\ lastPublish' = millis(now')
           /\ (IfMovedCall /\ ret' \in {1, 4, 5}) => lastPublish' = lastPublish
           /\ op' \in {"idle", "gps", "batt"} => lastPublish' = lastPublish
           /\ (lastPublishCheck' # lastPublishCheck /\ out' = << >>)
                => lastPublish' = lastPublish ]_vars

\* a scheduled check saw movement while moving: the check is recorded, the publish
\* time is older
C15_Witness ==
    /\ variant = "H" /\ op = "tick" /\ ret = 4
    /\ lastPublishCheck = millis(now) /\ lastPublish # millis(now)
    /\ lastEmit >= 0

(* C16: motion-gated variant. A gpsPublishIfMoved call made with a valid fix     *)
(* while readXYZmagnitude() is at or above accelThreshold publishes nothing,     *)
(* leaves previousLon, previousLat and previousCoordinatesSet as they were, also *)
(* when no baseline has been taken yet, and returns 0.                           *)
C16_HighMagnitudeDiscards ==
    [][ (variant = "M" /\ IfMovedCall /\ gps'.fix /\ mag' >= M_accelThreshold)
        => /\ out' = << >>
           /\ ret' = 0
           /\ UNCHANGED << previousLon, previousLat, previousCoordinatesSet >> ]_vars

\* a call with a fix was discarded for its magnitude before any baseline was taken
C16_Witness ==
    /\ variant = "M" /\ IfMovedRan /\ gps.fix /\ mag >= M_accelThreshold
    /\ ret = 0 /\ ~previousCoordinatesSet /\ baselineAccepts = 0

(* C17: heartbeat variant. After every gpsPublishIfMoved call that detects       *)
(* movement - the one that sends the "F" (return 2) and the silent one (return  *)
(* 4) alike - previousLon and previousLat are the coordinates of the sample the  *)
(* call read.                                                                    *)
C17_MovementUpdatesMemory ==
    [][ (variant = "H" /\ IfMovedCall /\ gps'.fix /\ ~H_NoMove(gps'))
        => /\ ret' \in {2, 4}
           /\ previousLon' = readLonDeg(gps')
           /\ previousLat' = readLatDeg(gps') ]_vars

\* a silent call followed the tracker: it returned 4 and stored a sample that is
\* not the accepted baseline
C17_Witness ==
    /\ variant = "H" /\ IfMovedRan /\ ret = 4 /\ out = << >>
    /\ previousLon = readLonDeg(gps) /\ previousLat = readLatDeg(gps)
    /\ baselineAccepts = 1 /\ baseline = NoBase

\* C18 (as stated): heartbeat variant. gpsPublish and gpsPublishIfMoved keep the
\* previous coordinates in one representation: a gpsPublishIfMoved call that follows
\* a forced gps command at the same position computes no change and does not take
\* the movement branch (it returns neither 2 nor 4 and publishes no "F")
C18_ForcedThenSamePlace ==
    [][ (variant = "H" /\ op = "gps" /\ ret = 1 /\ IfMovedCall /\ gps' = gps)
        => /\ ret' \notin {2, 4}
           /\ "F" \notin Tags(out')
           /\ UNCHANGED << previousLon, previousLat >> ]_vars

\* the tags after which gpsPublishIfMoved may publish tag t ("" is: none before)
MayFollow(t) ==
    CASE t = "G" -> {"", "F"}
      [] t = "F" -> {"G", "H"}
      [] t = "H" -> {"G", "H"}
      [] OTHER -> {}

(* C19: heartbeat variant. Whatever forced gps and batt commands come in         *)
(* between, the messages published by gpsPublishIfMoved form a prefix of         *)
(* (G H* F)*: the first is "G", an "F" directly follows a "G" or an "H", a later *)
(* "G" directly follows an "F", and an "H" directly follows a "G" or an "H".     *)
C19_TagOrder ==
    [][ (variant = "H" /\ IfMovedCall /\ out' # << >>)
        => /\ Len(out') = 1
           /\ ownTag \in MayFollow(out'[1][1])
           /\ ownTag' = out'[1][1] ]_vars

\* a heartbeat followed a "G" or "H" of gpsPublishIfMoved in a run whose previous
\* coordinates were first set by a forced gps command
C19_Witness ==
    /\ variant = "H" /\ IfMovedRan /\ out = << Msg("H", << >>) >>
    /\ ownTag = "H" /\ baseline = NoBase /\ baselineAccepts = 0

\* delayHeartbeatMinutes + delayMinutes, in ms
LongestGap == (H_delayHeartbeatMinutes + H_delayMinutes) * MsPerMinute

-----------------------------------------------------------------------------
(* Runs across the wrap of millis().  The first state is that of a device that   *)
(* has been up for 2^32 ms less WrapLead minutes (some 49.7 days) and has never  *)
(* had a fix: its scheduled checks have found no fix and written nothing but the *)
(* time of the check, the last of them just now.                                 *)

\* 2^32 - WrapLead minutes, as a word
Late ==
    LET n == WrapLead * MsPerMinute
    IN [hi |-> (Half - (n \div Half) - (IF n % Half = 0 THEN 0 ELSE 1)) % Half,
        lo |-> (Half - (n % Half)) % Half]

\* what a check without a fix returns
NoFixCode == [H |-> 5, M |-> 0, P |-> NoRet]

InitLate ==
    /\ variant \in {"H", "M", "P"}
    /\ now = 0
    /\ epoch = Late
    /\ lastCheckAt = 0
    /\ gps = NoFix
    /\ mag \in Magnitudes(variant)
    /\ transmittingData = 1
    /\ lastPublish = IF variant = "H" THEN ToWord(0) ELSE epoch
    /\ lastPublishCheck = IF variant = "H" THEN epoch ELSE ToWord(0)
    /\ previousCoordinatesSet = FALSE
    /\ previousLon = 0
    /\ previousLat = 0
    /\ lastPublishType = IF variant = "H" THEN "F" ELSE ""
    /\ op = "tick"
    /\ ret = NoFixCode[variant]
    /\ out = << >>
    /\ baselineAccepts = 0
    /\ movedSinceG = FALSE
    /\ lastEmit = 0 - 1
    /\ pairwiseClose = TRUE
    /\ lastFed = NoFix
    /\ nearBaseline = FALSE
    /\ baseline = NoBase
    /\ lastTag = ""
    /\ ownTag = ""
    /\ stage = 0
    /\ quiet = FALSE
    /\ twin = [lon |-> 0, lat |-> 0, set |-> FALSE, out |-> << >>,
               ret |-> NoFixCode[variant]]

SpecWrap == InitLate /\ [][Next]_vars

DelayMinutes == [H |-> H_delayMinutes, M |-> M_delayMinutes, P |-> P_delayMinutes]

\* millis() has run over since the first state
Wrapped == Above(epoch, millis(now))

(* C21: in every variant, in runs in which millis() runs over to 0, a loop()     *)
(* iteration makes the scheduled check exactly when more than delayMinutes have  *)
(* truly passed since the last check, and in the heartbeat variant a call at     *)
(* rest after a "G" or "H" publishes the heartbeat exactly when more than        *)
(* delayHeartbeatMinutes have truly passed since that message: the wrap neither  *)
(* holds a check or heartbeat back nor lets one through early.                   *)
C21_WrapKeepsIntervals ==
    [][ /\ op' \in {"tick", "idle"}
            => (op' = "tick"
                  <=> now' - lastCheckAt > DelayMinutes[variant] * MsPerMinute)
        /\ (variant = "H" /\ IfMovedCall /\ gps'.fix /\ H_NoMove(gps')
              /\ lastPublishType \in {"G", "H"})
            => (out' = << Msg("H", << >>) >> <=> SevenMinutesSilent) ]_vars

\* a scheduled check after the wrap sent the heartbeat of an interval that began
\* before it
C21_Witness ==
    /\ variant = "H" /\ op = "tick" /\ out = << Msg("H", << >>) >>
    /\ Wrapped
    /\ now - H_delayHeartbeatMinutes * MsPerMinute < WrapLead * MsPerMinute

====
